---- MODULE Spec2Model ----
(***************************************************************************)
(* prometheus_exporter: the Labels / Metric data model, Exporter.export    *)
(* with its label filter, and the cached_exporter decorator                *)
(* (CachedExporter.get_metrics with its time based snapshot).              *)
(*                                                                         *)
(* Python objects that can be aliased (lists of metrics, Metric objects,    *)
(* Labels objects) live in heaps, `lists`, `objs` and `label_objs`; a      *)
(* variable that holds such an object holds its id.  Cells no root refers  *)
(* to are cleared, which is what Python's reference counting does.         *)
(*                                                                         *)
(* Spec is the cached exporter serving concurrent requests, SpecCaller the *)
(* same with callers that write to what get_metrics returned to them, and  *)
(* SpecLabels the Labels objects of an exporter, its metrics and callers.  *)
(* SpecRefresh and SpecSerial are the cached exporter without assignments  *)
(* to its cache settings, SpecExporter the exporter without a cache,       *)
(* SpecConfigLabels, SpecLabelSet and SpecReadConfig smaller worlds of     *)
(* Labels, SpecMetric one Metric and its caller, and SpecFilter the calls  *)
(* of Labels.filter_metrics.                                               *)
(***************************************************************************)
EXTENDS Integers, Sequences, FiniteSets, TLC

VARIABLES
    now,             \* time(): the wall clock, in seconds
    config,          \* self.config["metrics"]: the data the provider builds metrics from
    cache_life,      \* self._cache_life
    cache_time,      \* self._cache_time (0 until first set)
    cached_metrics,  \* self._cached_metrics: a list id, NoList while the attribute is not set
    metrics,         \* self.metrics: a list id, NoList while the attribute is not set
    lists,           \* heap of list objects: list id -> sequence of Metric object ids
    objs,            \* heap of Metric objects: object id -> its attributes
    req,             \* the export() calls in progress, one per concurrent HTTP request
    exc,             \* the exception the last operation raised ("" if it raised none)
    log,             \* the last message get_metrics logged in the last operation ("" if none)
    label_objs,      \* heap of Labels objects: Labels id -> its items
    label_refs,      \* who holds which Labels object: owner -> Labels id, NoRef for none
    global_labels,   \* Labels.global_labels: label name -> the values ever set for it
    metric,          \* a Metric a caller constructs and assigns to, NoMetric before
    metric_str,      \* what str(metric) last returned ("" before)
    fm_self,         \* the Labels a caller calls filter_metrics on: its items
    fm_metrics,      \* the list of Metrics the caller passes to filter_metrics
    fm_filter_dict,  \* the dict the caller passes as input_filter_dict
    fm_result        \* what filter_metrics last returned (NoResult before)

vars == <<now, config, cache_life, cache_time, cached_metrics, metrics, lists, objs, req,
          exc, log, label_objs, label_refs, global_labels, metric, metric_str,
          fm_self, fm_metrics, fm_filter_dict, fm_result>>

\* The state of the exporter and its requests, and the state of the Labels objects
exporterVars == <<now, config, cache_life, cache_time, cached_metrics, metrics, lists, objs,
                  req, log>>
labelVars == <<label_objs, label_refs, global_labels>>
metricVars == <<metric, metric_str>>
filterVars == <<fm_self, fm_metrics, fm_filter_dict, fm_result>>

-----------------------------------------------------------------------------
(* Bounds of the model *)

MaxTime == 1     \* the clock runs from 0 to MaxTime
MaxLists == 6    \* list objects alive at once
MaxObjs == 8     \* Metric objects alive at once
MaxLabels == 6   \* Labels objects alive at once
MaxRegistry == 5 \* values Labels.global_labels holds, over all label names

ReqSeq == <<"r1", "r2">>   \* concurrent requests served by one exporter

-----------------------------------------------------------------------------
(* Python values: an int, a float (v stands for v.0), a str or None *)

PyInt(n) == [kind |-> "int", v |-> n]
PyFloat(n) == [kind |-> "float", v |-> n]
PyStr == [kind |-> "str", v |-> 0]
PyNone == [kind |-> "none", v |-> 0]

\* isinstance(value, (int, float))
IsNumber(x) == x.kind = "int" \/ x.kind = "float"

\* str(value) as an f-string formats it
PyToString(x) ==
    CASE x.kind = "int" -> ToString(x.v)
      [] x.kind = "float" -> ToString(x.v) \o ".0"
      [] x.kind = "none" -> "None"
      [] OTHER -> "s"

-----------------------------------------------------------------------------
(* Labels: a dict of label name -> value, as the sequence of its items in   *)
(* insertion order.                                                         *)

Range(s) == {s[i] : i \in 1..Len(s)}

\* key in labels
LabelsHas(labels, key) == \E i \in 1..Len(labels) : labels[i][1] = key

\* labels[key], for a key that is present
LabelsGet(labels, key) ==
    LET i == CHOOSE j \in 1..Len(labels) : labels[j][1] = key IN labels[i][2]

LabelsSet_keep_first(labels, key, value) ==
    IF LabelsHas(labels, key) THEN labels ELSE Append(labels, <<key, value>>)

\* dict.__setitem__: the value of a key that is present is replaced in its
\* place, a new key goes to the end
LabelsSet(labels, key, value) ==
    IF LabelsHas(labels, key)
    THEN [i \in 1..Len(labels) |-> IF labels[i][1] = key THEN <<key, value>> ELSE labels[i]]
    ELSE Append(labels, <<key, value>>)

RECURSIVE LabelsJoin(_, _)
LabelsJoin(labels, i) ==
    IF i > Len(labels) THEN ""
    ELSE (IF i > 1 THEN "," ELSE "")
         \o labels[i][1] \o "=\"" \o labels[i][2] \o "\""
         \o LabelsJoin(labels, i + 1)

\* Labels.__str__
LabelsStr(labels) == LabelsJoin(labels, 1)

-----------------------------------------------------------------------------
(* Metric *)

NoHook == [kind |-> "nohook", v |-> 0]

\* A Metric's attributes.  hook is what the subclass's _value() returns, NoHook
\* for a plain Metric.
MetricObj(name, type, help, labels, value, hook) ==
    [name |-> name, type |-> type, help |-> help, labels |-> labels,
     value |-> value, hook |-> hook]

NullMetric == MetricObj("", "", "", <<>>, PyNone, NoHook)

\* No Metric: the variable is not bound (no Metric has an empty name)
NoMetric == NullMetric

\* Metric.__getattribute__("value")
GetValue(m) == IF m.hook # NoHook THEN m.hook ELSE m.value

\* Metric.check_labels: the loop over label_filter.items(), from item i on
RECURSIVE CheckLabelsFrom(_, _, _)
CheckLabelsFrom(m, label_filter, i) ==
    IF i > Len(label_filter) THEN TRUE
    ELSE IF ~LabelsHas(m.labels, label_filter[i][1])
            \/ LabelsGet(m.labels, label_filter[i][1]) # label_filter[i][2]
         THEN FALSE
         ELSE CheckLabelsFrom(m, label_filter, i + 1)

check_labels_any(m, label_filter) ==
    \/ label_filter = <<>>
    \/ \E i \in 1..Len(label_filter) :
          /\ LabelsHas(m.labels, label_filter[i][1])
          /\ LabelsGet(m.labels, label_filter[i][1]) = label_filter[i][2]

check_labels(m, label_filter) == CheckLabelsFrom(m, label_filter, 1)

MetricStr_always_braces(m) ==
    (IF m.help # "" THEN "# HELP " \o m.name \o " " \o m.help \o "\n" ELSE "")
    \o "# TYPE " \o m.name \o " " \o m.type \o "\n" \o m.name
    \o "{" \o LabelsStr(m.labels) \o "}"
    \o " " \o PyToString(GetValue(m))

\* Metric.__str__
MetricStr(m) ==
    (IF m.help # "" THEN "# HELP " \o m.name \o " " \o m.help \o "\n" ELSE "")
    \o "# TYPE " \o m.name \o " " \o m.type \o "\n" \o m.name
    \o (IF m.labels # <<>> THEN "{" \o LabelsStr(m.labels) \o "}" ELSE "")
    \o " " \o PyToString(GetValue(m))

Emits_labels_only(m, label_filter) == check_labels(m, label_filter)

\* The test of Exporter.export that a metric is written to the output
Emits(m, label_filter) == check_labels(m, label_filter) /\ GetValue(m) # PyNone

\* Exporter.export: the loop over the metrics get_metrics returned, from i on
RECURSIVE ExportFrom(_, _, _)
ExportFrom(ms, label_filter, i) ==
    IF i > Len(ms) THEN ""
    ELSE (IF Emits(ms[i], label_filter) THEN MetricStr(ms[i]) \o "\n" ELSE "")
         \o ExportFrom(ms, label_filter, i + 1)

export(ms, label_filter) == ExportFrom(ms, label_filter, 1)

-----------------------------------------------------------------------------
(* The inputs of the model *)

L_a1 == << <<"a", "1">> >>
L_a2bx == << <<"a", "2">>, <<"b", "x">> >>

\* Entries of config["metrics"], as the keyword arguments they give Metric().
\* C_m3 stands for a Metric subclass whose _value() returns None; C_bad has a
\* value Metric.__setattr__ rejects.
C_m1 == MetricObj("m1", "counter", "", L_a1, PyInt(1), NoHook)
C_m2 == MetricObj("m2", "", "H", L_a2bx, PyInt(2), NoHook)
C_m3 == MetricObj("m3", "", "", L_a1, PyInt(0), PyNone)
C_bad == MetricObj("m4", "", "", <<>>, PyStr, NoHook)

\* The values config["metrics"] takes
Configs == { <<>>, <<C_m1, C_m2>>, <<C_m3, C_m2>>, <<C_bad, C_m1>> }

\* The label filters of the requests (the query string of /metrics)
Filters == { <<>>, L_a1, << <<"a", "1">>, <<"b", "x">> >> }

\* Values assigned to cache_life and to cache_time
LifeInputs == {PyInt(-1), PyInt(0), PyFloat(1), PyStr}
TimeInputs == {PyInt(-1), PyInt(0)}

-----------------------------------------------------------------------------
(* The provider: Exporter.get_metrics and export_config_metrics *)

\* MetricTypes[value.upper()] if value else MetricTypes.UNTYPED, then .value
ResolveType(t) == IF t = "" THEN "untyped" ELSE t

\* Metric.__init__: the TypeError of __setattr__ for a value that is no number
MetricInitRaises(kw) == ~IsNumber(kw.value)

MetricInit(kw) ==
    MetricObj(kw.name, ResolveType(kw.type), kw.help, kw.labels, kw.value, kw.hook)

\* export_config_metrics: the loop over config["metrics"], from entry i on.
\* built are the Metrics appended to self.metrics before the loop ended,
\* raised whether a Metric() raised.
RECURSIVE BuildFrom(_, _)
BuildFrom(cfg, i) ==
    IF i > Len(cfg) THEN [raised |-> FALSE, built |-> <<>>]
    ELSE IF MetricInitRaises(cfg[i]) THEN [raised |-> TRUE, built |-> <<>>]
    ELSE LET rest == BuildFrom(cfg, i + 1)
         IN [raised |-> rest.raised, built |-> <<MetricInit(cfg[i])>> \o rest.built]

export_config_metrics(cfg) == BuildFrom(cfg, 1)

-----------------------------------------------------------------------------
(* The heaps.  Object ids carry no meaning, so every action leaves the heaps  *)
(* renumbered in the order the roots reach the objects.                      *)

NoRef == 0          \* no object: None, or an attribute that is not set
NoList == NoRef
ListIds == 1..MaxLists
ObjIds == 1..MaxObjs
Requests == Range(ReqSeq)

Min(S) == CHOOSE x \in S : \A y \in S : x <= y

\* The n smallest ids of S, in increasing order: the cells a constructor takes
RECURSIVE SmallestN(_, _)
SmallestN(S, n) ==
    IF n = 0 THEN <<>> ELSE <<Min(S)>> \o SmallestN(S \ {Min(S)}, n - 1)

\* The references to lists that the variables hold, in a fixed order
RefSeq(cm, m, rq) == <<cm, m>> \o [i \in 1..Len(ReqSeq) |-> rq[ReqSeq[i]].result]

\* The lists some variable refers to
RootsOf(cm, m, rq) == Range(RefSeq(cm, m, rq)) \ {NoList}

Roots == RootsOf(cached_metrics, metrics, req)

\* The items of the lists refs[i..], one list after the other
RECURSIVE AllItems(_, _, _)
AllItems(ls, refs, i) ==
    IF i > Len(refs) THEN <<>>
    ELSE (IF refs[i] = NoList THEN <<>> ELSE ls[refs[i]]) \o AllItems(ls, refs, i + 1)

LiveObjs == Range(AllItems(lists, RefSeq(cached_metrics, metrics, req), 1))

\* The ids of s[i..] that are neither NoRef nor in acc, added to acc in the
\* order of their first place in s
RECURSIVE DistinctFrom(_, _, _)
DistinctFrom(s, i, acc) ==
    IF i > Len(s) THEN acc
    ELSE DistinctFrom(s, i + 1,
                      IF s[i] = NoRef \/ s[i] \in Range(acc) THEN acc ELSE Append(acc, s[i]))

\* The number an id gets: its place in the order the roots reach it
Rank(order, x) == IF x = NoRef THEN NoRef ELSE CHOOSE i \in 1..Len(order) : order[i] = x

\* The Metric objects of list l, in order
View(ls, os, l) == [i \in 1..Len(ls[l]) |-> os[ls[l][i]]]

\* The current snapshot as the Metrics it holds (<<>> while there is none)
Snapshot == IF cached_metrics = NoList THEN <<>> ELSE View(lists, objs, cached_metrics)

\* Commit, given the order in which the roots reach the lists and the objects
Renumbered(cm, m, rq, ls, os, lorder, oorder) ==
    /\ cached_metrics' = Rank(lorder, cm)
    /\ metrics' = Rank(lorder, m)
    /\ req' = [r \in Requests |-> [rq[r] EXCEPT !.result = Rank(lorder, rq[r].result)]]
    /\ lists' = [n \in ListIds |->
                   IF n <= Len(lorder)
                   THEN [i \in 1..Len(ls[lorder[n]]) |-> Rank(oorder, ls[lorder[n]][i])]
                   ELSE <<>>]
    /\ objs' = [n \in ObjIds |-> IF n <= Len(oorder) THEN os[oorder[n]] ELSE NullMetric]

\* The state an action leaves: cm, m and rq are the new self._cached_metrics,
\* self.metrics and requests, ls and os the heaps after its assignments.
\* Cells no variable reaches are dropped.
Commit(cm, m, rq, ls, os) ==
    LET lorder == DistinctFrom(RefSeq(cm, m, rq), 1, <<>>)
    IN Renumbered(cm, m, rq, ls, os, lorder,
                  DistinctFrom(AllItems(ls, lorder, 1), 1, <<>>))

\* The heap of Metric objects after Metric() was called for each of built,
\* the objects taking the cells ids
Construct(ids, built) ==
    [o \in ObjIds |-> IF \E i \in 1..Len(ids) : ids[i] = o
                      THEN built[CHOOSE i \in 1..Len(ids) : ids[i] = o]
                      ELSE objs[o]]

-----------------------------------------------------------------------------
(* Labels objects and the registry Labels.global_labels *)

\* Who holds a Labels object: the caller that built one (arg), the exporter
\* (self.labels), the caller that got a copy (copy), a Metric (metric.labels)
OwnerSeq == <<"arg", "exporter", "copy", "metric">>
Owners == Range(OwnerSeq)

LabelIds == 1..MaxLabels
LabelNameSeq == <<"a", "b", "_a", "1a">>
LabelNames == Range(LabelNameSeq)

\* A label value that is not a str
NotAStr == "<int>"

\* isinstance(x, str)
IsStr(x) == x # NotAStr

\* The exceptions of _check_label
BadLabelName == "TypeError: Label names must be strings"
BadLabelValue == "TypeError: Label values must be strings"

_check_label_names_only(name, value) ==
    IF ~IsStr(name) THEN BadLabelName ELSE ""

\* Labels._check_label: the exception it raises, "" when it returns
_check_label(name, value) ==
    IF ~IsStr(name) THEN BadLabelName
    ELSE IF ~IsStr(value) THEN BadLabelValue
    ELSE ""

\* Labels._update_global_labels: the registry after it
_update_global_labels(registry, key, value) ==
    [registry EXCEPT ![key] = Append(@, value)]

\* Labels.__setitem__ on a Labels with these items: the items and the registry
\* after it, and the exception it raised
__setitem__(items, registry, key, value) ==
    IF _check_label(key, value) # ""
    THEN [items |-> items, registry |-> registry, exc |-> _check_label(key, value)]
    ELSE [items |-> LabelsSet(items, key, value),
          registry |-> _update_global_labels(registry, key, value), exc |-> ""]

\* Labels.update: the loop over new_labels.items(), from item i on
RECURSIVE UpdateFrom(_, _, _, _)
UpdateFrom(items, registry, new_labels, i) ==
    IF i > Len(new_labels) THEN [items |-> items, registry |-> registry, exc |-> ""]
    ELSE LET set == __setitem__(items, registry, new_labels[i][1], new_labels[i][2])
         IN IF set.exc # "" THEN set
            ELSE UpdateFrom(set.items, set.registry, new_labels, i + 1)

update(items, registry, new_labels) == UpdateFrom(items, registry, new_labels, 1)

\* Labels.__init__: Labels(dict_items)
labels_init(registry, dict_items) == update(<<>>, registry, dict_items)

\* dict.pop(key) for a key that is present
LabelsPop(items, key) == SelectSeq(items, LAMBDA p : p[1] # key)

\* The number of values the registry holds
RECURSIVE RegistrySizeFrom(_, _)
RegistrySizeFrom(registry, i) ==
    IF i > Len(LabelNameSeq) THEN 0
    ELSE Len(registry[LabelNameSeq[i]]) + RegistrySizeFrom(registry, i + 1)

RegistrySize(registry) == RegistrySizeFrom(registry, 1)

\* The Labels objects some owner holds
HeldLabels == {label_refs[o] : o \in Owners} \ {NoRef}

\* The items owner o sees (<<>> while it holds no Labels)
Seen(o) == IF label_refs[o] = NoRef THEN <<>> ELSE label_objs[label_refs[o]]

\* The state an action on Labels leaves: refs is who holds what, heap the
\* Labels objects after its assignments.  Objects no owner holds are dropped.
CommitLabels(refs, heap) ==
    LET order == DistinctFrom([i \in 1..Len(OwnerSeq) |-> refs[OwnerSeq[i]]], 1, <<>>)
    IN /\ label_refs' = [o \in Owners |-> Rank(order, refs[o])]
       /\ label_objs' = [n \in LabelIds |-> IF n <= Len(order) THEN heap[order[n]] ELSE <<>>]

-----------------------------------------------------------------------------
(* CachedExporter *)

\* The exceptions raised
NotANumber(func) == "TypeError: ('%s must be an integer or float', '" \o func \o "')"
NotPositive(func) == "ValueError: ('%s must be a positive number', '" \o func \o "')"
BadMetricValue == "TypeError: Value must be an integer or float"

is_positive_number_no_sign_check(func, value) ==
    IF ~IsNumber(value) THEN NotANumber(func) ELSE ""

\* is_positive_number: the exception the wrapper raises, "" when it calls func
is_positive_number(func, value) ==
    IF ~IsNumber(value) THEN NotANumber(func)
    ELSE IF value.v < 0 THEN NotPositive(func)
    ELSE ""

cache_age_default_cache_time == now - 0

\* cache_age: time() - getattr(self, "_cache_time", 0)
cache_age == now - cache_time

NeedsRefresh_strict == cached_metrics = NoList \/ cache_age > cache_life.v

\* The condition of get_metrics that sends the call to the provider
NeedsRefresh == cached_metrics = NoList \/ cache_age >= cache_life.v

\* list.copy() of list src: the id of the list returned, fresh being a free cell
list_copy(src, fresh) == fresh

Truthy_always(items) == TRUE

\* The truth value of a list: `if new_metrics := ...`
Truthy(items) == items # <<>>

\* A request: where its export() call is (pc), its label_filter, the list
\* get_metrics returned and the text export returned.
IdleReq == [pc |-> "idle", filter |-> <<>>, result |-> NoList, out |-> ""]

\* The messages of cache_age and get_metrics
LogAge(age) == "Cache age: " \o ToString(age)
LogNoMetrics == "Exporter returned no metrics, returning cached metrics"
LogCached == "Returning cached metrics"

\* filter_metrics has not returned: the list it returns, and whether that
\* is the very list it was given
NoResult == [returned |-> FALSE, metrics |-> <<>>, same_list |-> FALSE]

Init ==
    /\ now = 0
    /\ config \in Configs
    /\ cache_life \in {x \in LifeInputs : is_positive_number("cache_life", x) = ""}
    /\ cache_time = 0
    /\ cached_metrics = NoList
    /\ metrics = NoList
    /\ lists = [l \in ListIds |-> <<>>]
    /\ objs = [o \in ObjIds |-> NullMetric]
    /\ req = [r \in Requests |-> IdleReq]
    /\ exc = ""
    /\ log = ""
    /\ label_objs = [l \in LabelIds |-> <<>>]
    /\ label_refs = [o \in Owners |-> NoRef]
    /\ global_labels = [k \in LabelNames |-> <<>>]
    /\ metric = NoMetric
    /\ metric_str = ""
    /\ fm_self = <<>>
    /\ fm_metrics = <<>>
    /\ fm_filter_dict = <<>>
    /\ fm_result = NoResult

\* `return self.metrics.copy()` of get_metrics, then the rest of export, for
\* request r with filter f: cm and m are the new self._cached_metrics and
\* self.metrics, ls and os the heaps after the assignments.
Return(r, f, cm, m, ls, os, msg) ==
    LET fresh == Min(ListIds \ (RootsOf(cm, m, req) \cup Roots))
        res == list_copy(m, fresh)
        ls2 == [ls EXCEPT ![fresh] = ls[m]]
        done == [pc |-> "done", filter |-> f, result |-> res,
                 out |-> export(View(ls2, os, res), f)]
    IN /\ Commit(cm, m, [req EXCEPT ![r] = done], ls2, os)
       /\ log' = msg

\* export(label_filter) is called: get_metrics up to the await of the
\* provider, or, when the snapshot is fresh, to the end of export.
Call(r, f) ==
    /\ req[r].pc = "idle"
    /\ IF NeedsRefresh
       THEN /\ req' = [req EXCEPT ![r] = [IdleReq EXCEPT !.pc = "awaiting", !.filter = f]]
            /\ log' = IF cached_metrics = NoList THEN "" ELSE LogAge(cache_age)
            /\ UNCHANGED <<cached_metrics, metrics, lists, objs>>
       ELSE Return(r, f, cached_metrics, cached_metrics, lists, objs, LogCached)
    /\ exc' = ""
    /\ UNCHANGED <<now, config, cache_life, cache_time, labelVars, metricVars, filterVars>>

ProviderRaise_caching(r) ==
    /\ req[r].pc = "awaiting"
    /\ LET run == export_config_metrics(config)
           ids == SmallestN(ObjIds \ LiveObjs, Len(run.built))
           la == Min(ListIds \ Roots)
       IN /\ run.raised
          /\ Commit(la, la, [req EXCEPT ![r] = IdleReq],
                    [lists EXCEPT ![la] = ids], Construct(ids, run.built))
    /\ exc' = BadMetricValue
    /\ log' = ""
    /\ UNCHANGED <<now, config, cache_life, cache_time, labelVars, metricVars, filterVars>>

ProviderRaise_serve_stale(r) ==
    /\ req[r].pc = "awaiting"
    /\ export_config_metrics(config).raised
    /\ IF cached_metrics # NoList
       THEN /\ Return(r, req[r].filter, cached_metrics, cached_metrics, lists, objs,
                      LogNoMetrics)
            /\ exc' = ""
       ELSE /\ Commit(cached_metrics, metrics, [req EXCEPT ![r] = IdleReq], lists, objs)
            /\ exc' = BadMetricValue
            /\ log' = ""
    /\ UNCHANGED <<now, config, cache_life, cache_time, labelVars, metricVars, filterVars>>

\* The provider a request awaits runs (Exporter.get_metrics) and a Metric()
\* raises: the exception leaves get_metrics and export, and the request is
\* over.  self.metrics is the list the provider had filled so far.
ProviderRaise(r) ==
    /\ req[r].pc = "awaiting"
    /\ LET run == export_config_metrics(config)
           ids == SmallestN(ObjIds \ LiveObjs, Len(run.built))
           la == Min(ListIds \ Roots)
       IN /\ run.raised
          /\ Commit(cached_metrics, la, [req EXCEPT ![r] = IdleReq],
                    [lists EXCEPT ![la] = ids], Construct(ids, run.built))
    /\ exc' = BadMetricValue
    /\ log' = ""
    /\ UNCHANGED <<now, config, cache_life, cache_time, labelVars, metricVars, filterVars>>

ProviderReturn_narrows(r) ==
    /\ req[r].pc = "awaiting"
    /\ LET run == export_config_metrics(config)
           kept == SelectSeq(run.built, LAMBDA m : check_labels(m, req[r].filter))
           ids == SmallestN(ObjIds \ LiveObjs, Len(kept))
           os == Construct(ids, kept)
           la == Min(ListIds \ Roots)
           lb == Min(ListIds \ (Roots \cup {la}))
           ls == [lists EXCEPT ![la] = ids, ![lb] = ids]
       IN /\ ~run.raised
          /\ IF Truthy(ids)
             THEN /\ cache_time' = now
                  /\ Return(r, req[r].filter, lb, lb, ls, os, "")
             ELSE IF cached_metrics # NoList
             THEN /\ UNCHANGED cache_time
                  /\ Return(r, req[r].filter, cached_metrics, cached_metrics, ls, os,
                            LogNoMetrics)
             ELSE /\ UNCHANGED cache_time
                  /\ Return(r, req[r].filter, cached_metrics, la, ls, os, "")
    /\ exc' = ""
    /\ UNCHANGED <<now, config, cache_life, labelVars, metricVars, filterVars>>

ProviderReturn_caches_empty(r) ==
    /\ req[r].pc = "awaiting"
    /\ LET run == export_config_metrics(config)
           ids == SmallestN(ObjIds \ LiveObjs, Len(run.built))
           os == Construct(ids, run.built)
           la == Min(ListIds \ Roots)
           lb == Min(ListIds \ (Roots \cup {la}))
           ls == [lists EXCEPT ![la] = ids, ![lb] = ids]
       IN /\ ~run.raised
          /\ IF Truthy(ids) \/ cached_metrics = NoList
             THEN /\ cache_time' = now
                  /\ Return(r, req[r].filter, lb, lb, ls, os, "")
             ELSE /\ UNCHANGED cache_time
                  /\ Return(r, req[r].filter, cached_metrics, cached_metrics, ls, os,
                            LogNoMetrics)
    /\ exc' = ""
    /\ UNCHANGED <<now, config, cache_life, labelVars, metricVars, filterVars>>

ProviderReturn_touch_time(r) ==
    /\ req[r].pc = "awaiting"
    /\ LET run == export_config_metrics(config)
           ids == SmallestN(ObjIds \ LiveObjs, Len(run.built))
           os == Construct(ids, run.built)
           la == Min(ListIds \ Roots)
           lb == Min(ListIds \ (Roots \cup {la}))
           ls == [lists EXCEPT ![la] = ids, ![lb] = ids]
       IN /\ ~run.raised
          /\ IF Truthy(ids)
             THEN /\ cache_time' = now
                  /\ Return(r, req[r].filter, lb, lb, ls, os, "")
             ELSE IF cached_metrics # NoList
             THEN /\ cache_time' = now
                  /\ Return(r, req[r].filter, cached_metrics, cached_metrics, ls, os,
                            LogNoMetrics)
             ELSE /\ UNCHANGED cache_time
                  /\ Return(r, req[r].filter, cached_metrics, la, ls, os, "")
    /\ exc' = ""
    /\ UNCHANGED <<now, config, cache_life, labelVars, metricVars, filterVars>>

\* The provider a request awaits runs and returns its list: the rest of
\* get_metrics and of export.
ProviderReturn(r) ==
    /\ req[r].pc = "awaiting"
    /\ LET run == export_config_metrics(config)
           ids == SmallestN(ObjIds \ LiveObjs, Len(run.built))
           os == Construct(ids, run.built)
           la == Min(ListIds \ Roots)               \* self.metrics of the provider
           lb == Min(ListIds \ (Roots \cup {la}))   \* the copy it returns: new_metrics
           ls == [lists EXCEPT ![la] = ids, ![lb] = ids]
       IN /\ ~run.raised
          /\ IF Truthy(ids)
             THEN /\ cache_time' = now
                  /\ Return(r, req[r].filter, lb, lb, ls, os, "")
             ELSE IF cached_metrics # NoList
             THEN /\ UNCHANGED cache_time
                  /\ Return(r, req[r].filter, cached_metrics, cached_metrics, ls, os,
                            LogNoMetrics)
             ELSE /\ UNCHANGED cache_time
                  /\ Return(r, req[r].filter, cached_metrics, la, ls, os, "")
    /\ exc' = ""
    /\ UNCHANGED <<now, config, cache_life, labelVars, metricVars, filterVars>>

\* The caller of export is done with what it got
Done(r) ==
    /\ req[r].pc = "done"
    /\ Commit(cached_metrics, metrics, [req EXCEPT ![r] = IdleReq], lists, objs)
    /\ exc' = ""
    /\ log' = ""
    /\ UNCHANGED <<now, config, cache_life, cache_time, labelVars, metricVars, filterVars>>

\* cache_life = value
SetCacheLife(value) ==
    /\ exc' = is_positive_number("cache_life", value)
    /\ log' = ""
    /\ cache_life' = IF is_positive_number("cache_life", value) = "" THEN value
                     ELSE cache_life
    /\ UNCHANGED <<now, config, cache_time, cached_metrics, metrics, lists, objs, req,
                 labelVars, metricVars, filterVars>>

\* cache_time = value
SetCacheTime(value) ==
    /\ exc' = is_positive_number("cache_time", value)
    /\ log' = ""
    /\ cache_time' = IF is_positive_number("cache_time", value) = "" THEN value.v
                     ELSE cache_time
    /\ UNCHANGED <<now, config, cache_life, cached_metrics, metrics, lists, objs, req,
                 labelVars, metricVars, filterVars>>

\* config["metrics"] is replaced: the provider's data changes
SetConfig(c) ==
    /\ config # c
    /\ config' = c
    /\ exc' = ""
    /\ log' = ""
    /\ UNCHANGED <<now, cache_life, cache_time, cached_metrics, metrics, lists, objs, req,
                 labelVars, metricVars, filterVars>>

\* A second passes
Tick ==
    /\ now < MaxTime
    /\ now' = now + 1
    /\ exc' = ""
    /\ log' = ""
    /\ UNCHANGED <<config, cache_life, cache_time, cached_metrics, metrics, lists, objs, req,
                 labelVars, metricVars, filterVars>>

Next ==
    \/ \E r \in Requests, f \in Filters : Call(r, f)
    \/ \E r \in Requests : ProviderRaise(r)
    \/ \E r \in Requests : ProviderReturn(r)
    \/ \E r \in Requests : Done(r)
    \/ \E value \in LifeInputs : SetCacheLife(value)
    \/ \E value \in TimeInputs : SetCacheTime(value)
    \/ \E c \in Configs : SetConfig(c)
    \/ Tick

Spec == Init /\ [][Next]_vars

\* The cached exporter while nothing assigns cache_life or cache_time from
\* outside get_metrics
NextRefresh ==
    \/ \E r \in Requests, f \in Filters : Call(r, f)
    \/ \E r \in Requests : ProviderRaise(r)
    \/ \E r \in Requests : ProviderReturn(r)
    \/ \E r \in Requests : Done(r)
    \/ \E c \in Configs : SetConfig(c)
    \/ Tick

SpecRefresh == Init /\ [][NextRefresh]_vars

\* The same with one request at a time: no call starts while another awaits
\* the provider
NextSerial ==
    \/ \E f \in Filters : Call("r1", f)
    \/ ProviderRaise("r1")
    \/ ProviderReturn("r1")
    \/ Done("r1")
    \/ \E c \in Configs : SetConfig(c)
    \/ Tick

SpecSerial == Init /\ [][NextSerial]_vars

-----------------------------------------------------------------------------
(* Callers that change what get_metrics returned to them *)

\* What the callers write: a metric value, and a label
CallerValue == PyInt(7)
CallerLabel == <<"a", "9">>

\* del result[0], result being the list request r got
CallerRemove(r) ==
    /\ req[r].pc = "done"
    /\ lists[req[r].result] # <<>>
    /\ Commit(cached_metrics, metrics, req,
              [lists EXCEPT ![req[r].result] = Tail(lists[req[r].result])], objs)
    /\ exc' = ""
    /\ log' = ""
    /\ UNCHANGED <<now, config, cache_life, cache_time, labelVars, metricVars, filterVars>>

\* result[i].value = CallerValue: Metric.__setattr__
CallerSetValue(r, i) ==
    /\ req[r].pc = "done"
    /\ i \in 1..Len(lists[req[r].result])
    /\ IsNumber(CallerValue)
    /\ objs[lists[req[r].result][i]].value # CallerValue
    /\ objs' = [objs EXCEPT ![lists[req[r].result][i]].value = CallerValue]
    /\ exc' = ""
    /\ log' = ""
    /\ UNCHANGED <<now, config, cache_life, cache_time, cached_metrics, metrics, lists, req,
                 labelVars, metricVars, filterVars>>

\* result[i].labels[key] = value: Labels.__setitem__
CallerSetLabel(r, i) ==
    /\ req[r].pc = "done"
    /\ i \in 1..Len(lists[req[r].result])
    /\ LET o == lists[req[r].result][i]
           new == LabelsSet(objs[o].labels, CallerLabel[1], CallerLabel[2])
       IN /\ objs[o].labels # new
          /\ objs' = [objs EXCEPT ![o].labels = new]
    /\ exc' = ""
    /\ log' = ""
    /\ UNCHANGED <<now, config, cache_life, cache_time, cached_metrics, metrics, lists, req,
                 labelVars, metricVars, filterVars>>

\* The requests of Next within one second, without a filter and with a
\* configuration that stays as it was set up, and callers that write to the
\* list they got and to its first Metric
NextCaller ==
    \/ \E r \in Requests : Call(r, <<>>)
    \/ \E r \in Requests : ProviderReturn(r)
    \/ \E r \in Requests : Done(r)
    \/ \E r \in Requests : CallerRemove(r)
    \/ \E r \in Requests : CallerSetValue(r, 1)
    \/ \E r \in Requests : CallerSetLabel(r, 1)

\* An exporter with two config metrics
InitCaller == Init /\ config = <<C_m1, C_m2>>

SpecCaller == InitCaller /\ [][NextCaller]_vars

-----------------------------------------------------------------------------
(* Operations on Labels objects *)

\* The dicts callers build Labels from, and the labels of a config metric
LabelDicts == { << <<"a", "1">> >>, << <<"a", "1">>, <<"b", "2">> >>,
                << <<"a", "1">>, <<"b", NotAStr>> >> }
ConfigLabels == { <<>>, << <<"a", "2">> >> }

\* The items callers set
LabelItems == { <<"a", "2">>, <<"b", "2">>, <<"b", NotAStr>> }

labels_copy_same_object(src, fresh) == src

\* The object Labels.copy returns for the Labels src: Labels(super().copy()),
\* a new object in the free cell fresh
labels_copy(src, fresh) == fresh

\* owner = Labels(dict_items): the new object is bound unless __init__ raised
Bind(owner, dict_items) ==
    LET made == labels_init(global_labels, dict_items)
        fresh == Min(LabelIds \ HeldLabels)
    IN /\ RegistrySize(made.registry) <= MaxRegistry
       /\ global_labels' = made.registry
       /\ exc' = made.exc
       /\ IF made.exc = ""
          THEN CommitLabels([label_refs EXCEPT ![owner] = fresh],
                            [label_objs EXCEPT ![fresh] = made.items])
          ELSE UNCHANGED <<label_refs, label_objs>>
       /\ UNCHANGED <<exporterVars, metricVars, filterVars>>

\* owner = source.copy()
BindCopy(owner, source) ==
    LET made == labels_init(global_labels, Seen(source))
        fresh == Min(LabelIds \ HeldLabels)
    IN /\ label_refs[source] # NoRef
       /\ RegistrySize(made.registry) <= MaxRegistry
       /\ global_labels' = made.registry
       /\ exc' = ""
       /\ CommitLabels([label_refs EXCEPT ![owner] = labels_copy(label_refs[source], fresh)],
                       [label_objs EXCEPT ![fresh] = made.items])
       /\ UNCHANGED <<exporterVars, metricVars, filterVars>>

\* A caller builds a Labels: Labels(dict_items)
NewLabels(dict_items) == Bind("arg", dict_items)

\* Exporter(labels=arg): self.labels = Labels(dict_items=labels)
ExporterInit ==
    /\ label_refs["arg"] # NoRef
    /\ Bind("exporter", Seen("arg"))

\* A caller copies its Labels: arg.copy()
LabelsCopy == BindCopy("copy", "arg")

\* Exporter.get_labels
get_labels ==
    /\ label_refs["exporter"] # NoRef
    /\ BindCopy("copy", "exporter")

\* Metric(name, labels=arg): self.labels = Labels(labels)
MetricNew ==
    /\ label_refs["arg"] # NoRef
    /\ Bind("metric", Seen("arg"))

\* One round of the loop of export_config_metrics, for a config metric with
\* these labels: kwargs["labels"] = self.get_labels(), updated with the
\* metric's labels and given to Metric()
ConfigMetric(labels) ==
    LET copied == labels_init(global_labels, Seen("exporter"))
        fresh == Min(LabelIds \ HeldLabels)
        kwargs == labels_copy(label_refs["exporter"], fresh)
        heap == [label_objs EXCEPT ![fresh] = copied.items]
        updated == update(heap[kwargs], copied.registry, labels)
        heap2 == [heap EXCEPT ![kwargs] = updated.items]
        made == labels_init(updated.registry, heap2[kwargs])
        cell == Min(LabelIds \ (HeldLabels \cup {fresh}))
    IN /\ label_refs["exporter"] # NoRef
       /\ RegistrySize(made.registry) <= MaxRegistry
       /\ global_labels' = made.registry
       /\ exc' = ""
       /\ CommitLabels([label_refs EXCEPT !["metric"] = cell],
                       [heap2 EXCEPT ![cell] = made.items])
       /\ UNCHANGED <<exporterVars, metricVars, filterVars>>

\* The Labels owner holds gets labels[key] = value
SetItem(owner, key, value) ==
    LET set == __setitem__(Seen(owner), global_labels, key, value)
    IN /\ label_refs[owner] # NoRef
       /\ RegistrySize(set.registry) <= MaxRegistry
       /\ global_labels' = set.registry
       /\ exc' = set.exc
       /\ label_objs' = [label_objs EXCEPT ![label_refs[owner]] = set.items]
       /\ UNCHANGED <<label_refs, exporterVars, metricVars, filterVars>>

\* The Labels owner holds gets labels.update(new_labels): the pairs before
\* the one that raises are set
Update(owner, new_labels) ==
    LET set == update(Seen(owner), global_labels, new_labels)
    IN /\ label_refs[owner] # NoRef
       /\ RegistrySize(set.registry) <= MaxRegistry
       /\ global_labels' = set.registry
       /\ exc' = set.exc
       /\ label_objs' = [label_objs EXCEPT ![label_refs[owner]] = set.items]
       /\ UNCHANGED <<label_refs, exporterVars, metricVars, filterVars>>

\* The Labels owner holds gets labels.pop(key), for a key it has
Pop(owner, key) ==
    /\ label_refs[owner] # NoRef
    /\ LabelsHas(Seen(owner), key)
    /\ label_objs' = [label_objs EXCEPT ![label_refs[owner]] = LabelsPop(@, key)]
    /\ exc' = ""
    /\ UNCHANGED <<label_refs, global_labels, exporterVars, metricVars, filterVars>>

NextLabels ==
    \/ \E dict_items \in LabelDicts : NewLabels(dict_items)
    \/ ExporterInit
    \/ LabelsCopy
    \/ get_labels
    \/ MetricNew
    \/ \E labels \in ConfigLabels : ConfigMetric(labels)
    \/ \E owner \in Owners, item \in LabelItems : SetItem(owner, item[1], item[2])
    \/ \E owner \in Owners, key \in LabelNames : Pop(owner, key)

\* An exporter without config metrics, and the Labels of its callers
InitLabels == Init /\ config = <<>> /\ cache_life = PyInt(0)

SpecLabels == InitLabels /\ [][NextLabels]_vars

\* An exporter that is given its labels and builds its config metrics, whose
\* labels and its own are then set
NextConfigLabels ==
    \/ \E dict_items \in LabelDicts : NewLabels(dict_items)
    \/ ExporterInit
    \/ \E labels \in ConfigLabels : ConfigMetric(labels)
    \/ \E owner \in {"exporter", "metric"}, item \in LabelItems :
          SetItem(owner, item[1], item[2])

SpecConfigLabels == InitLabels /\ [][NextConfigLabels]_vars

-----------------------------------------------------------------------------
(* The exporter's labels and its config file *)

\* The [labels] table of the config file: its keys are strings, its values
\* what TOML gives (a string, or an integer as in `b = 1`)
ConfigFileLabels == { <<>>, << <<"a", "2">> >>, << <<"a", "1">>, <<"b", NotAStr>> >> }

\* dict.__ior__ (d |= other), from item i of other on: the update of the
\* built-in dict, which sets each pair in the dict itself and calls neither
\* __setitem__ nor update of the subclass
RECURSIVE dict_ior(_, _, _)
dict_ior(items, other, i) ==
    IF i > Len(other) THEN items
    ELSE dict_ior(LabelsSet(items, other[i][1], other[i][2]), other, i + 1)

\* Exporter.read_config, at construction and on SIGHUP, for a config file
\* with these labels: self.labels |= self.config.get("labels", {}).  The
\* result of |= is the same Labels object, assigned to self.labels again.
ReadConfig(config_labels) ==
    /\ label_refs["exporter"] # NoRef
    /\ label_objs' = [label_objs EXCEPT
                        ![label_refs["exporter"]] = dict_ior(@, config_labels, 1)]
    /\ exc' = ""
    /\ UNCHANGED <<label_refs, global_labels, exporterVars, metricVars, filterVars>>

NextReadConfig ==
    \/ \E dict_items \in LabelDicts : NewLabels(dict_items)
    \/ ExporterInit
    \/ \E config_labels \in ConfigFileLabels : ReadConfig(config_labels)
    \/ \E item \in LabelItems : SetItem("exporter", item[1], item[2])
    \/ \E new_labels \in LabelDicts : Update("exporter", new_labels)

SpecReadConfig == InitLabels /\ [][NextReadConfig]_vars

-----------------------------------------------------------------------------
(* One Labels and what its holder sets on it *)

\* The pairs the holder sets: a new key, a key set again, keys with a leading
\* underscore and a leading digit, an empty value, a value and a key that are
\* no str
SetInputs == { <<"a", "1">>, <<"a", "2">>, <<"_a", "1">>, <<"1a", "1">>, <<"b", "">>,
               <<"b", NotAStr>>, <<NotAStr, "1">> }

\* The mappings the holder builds a Labels from and updates it with
MappingInputs == { << <<"a", "1">>, <<"b", "2">> >>,
                   << <<"a", "2">>, <<NotAStr, "1">>, <<"b", "2">> >>,
                   << <<"a", NotAStr>>, <<NotAStr, "1">> >> }

NextLabelSet ==
    \/ \E dict_items \in MappingInputs : NewLabels(dict_items)
    \/ \E item \in SetInputs : SetItem("arg", item[1], item[2])
    \/ \E new_labels \in MappingInputs : Update("arg", new_labels)
    \/ \E key \in LabelNames : Pop("arg", key)

SpecLabelSet == InitLabels /\ [][NextLabelSet]_vars

-----------------------------------------------------------------------------
(* One Metric and what its holder assigns to it.  A name is given as the    *)
(* sequence of its characters.                                              *)

Letters == {"m", "x"}
Digits == {"1"}

\* The names given to Metric(): m1, "m x", " m", 1m and the empty name
NameInputs == { <<"m", "1">>, <<"m", " ", "x">>, <<" ", "m">>, <<"1", "m">>, <<>> }

\* The other arguments of Metric(), as the attributes they give: none, labels,
\* a help, a help with labels and a type, a subclass with a _value() and a
\* type, a value that is no number, and a subclass whose _value() gives None
KwargInputs ==
    { MetricObj("", "", "", <<>>, PyInt(0), NoHook),
      MetricObj("", "", "", L_a2bx, PyInt(0), NoHook),
      MetricObj("", "", "H", <<>>, PyInt(0), NoHook),
      MetricObj("", "counter", "H", L_a1, PyInt(0), NoHook),
      MetricObj("", "counter", "", <<>>, PyInt(0), PyInt(42)),
      MetricObj("", "", "", <<>>, PyStr, NoHook),
      MetricObj("", "", "", <<>>, PyInt(0), PyNone) }

\* The values assigned to metric.value
ValueInputs == {PyFloat(1), PyStr, PyNone}

str_replace_nothing(chars) == chars

\* value.replace(" ", "_")
str_replace(chars) == [i \in 1..Len(chars) |-> IF chars[i] = " " THEN "_" ELSE chars[i]]

\* fullmatch(METRIC_NAME_REGEX, value), the pattern being [a-zA-Z_][a-zA-Z0-9_]*
fullmatch_METRIC_NAME_REGEX(chars) ==
    /\ Len(chars) >= 1
    /\ chars[1] \in Letters \cup {"_"}
    /\ \A i \in 2..Len(chars) : chars[i] \in Letters \cup Digits \cup {"_"}

\* The str of these characters
RECURSIVE StrFrom(_, _)
StrFrom(chars, i) == IF i > Len(chars) THEN "" ELSE chars[i] \o StrFrom(chars, i + 1)

StrOf(chars) == StrFrom(chars, 1)

\* The exceptions of Metric.__setattr__ for the name
InvalidName(chars) == "ValueError: Invalid metric name: " \o StrOf(chars)
CannotChangeName == "AttributeError: Cannot change metric name"

\* metric = Metric(name, **kw): __init__ sets name, type, help, labels and
\* value in this order; the Metric is bound unless one of them raised
NewMetric(name, kw) ==
    LET replaced == str_replace(name)
        made == labels_init(global_labels, kw.labels)
    IN /\ IF ~fullmatch_METRIC_NAME_REGEX(replaced)
          THEN /\ exc' = InvalidName(replaced)
               /\ UNCHANGED <<metric, global_labels>>
          ELSE /\ RegistrySize(made.registry) <= MaxRegistry
               /\ global_labels' = made.registry
               /\ IF made.exc # ""
                  THEN exc' = made.exc /\ UNCHANGED metric
                  ELSE IF ~IsNumber(kw.value)
                  THEN exc' = BadMetricValue /\ UNCHANGED metric
                  ELSE /\ exc' = ""
                       /\ metric' = MetricObj(StrOf(replaced), ResolveType(kw.type), kw.help,
                                              made.items, kw.value, kw.hook)
       /\ metric_str' = ""
       /\ UNCHANGED <<exporterVars, label_objs, label_refs, filterVars>>

SetName_renames(name) ==
    /\ metric # NoMetric
    /\ IF fullmatch_METRIC_NAME_REGEX(str_replace(name))
       THEN exc' = "" /\ metric' = [metric EXCEPT !.name = StrOf(str_replace(name))]
       ELSE exc' = InvalidName(str_replace(name)) /\ UNCHANGED metric
    /\ metric_str' = ""
    /\ UNCHANGED <<exporterVars, labelVars, filterVars>>

\* metric.name = name, after construction: hasattr(self, "name") holds
SetName(name) ==
    /\ metric # NoMetric
    /\ exc' = CannotChangeName
    /\ metric_str' = ""
    /\ UNCHANGED <<metric, exporterVars, labelVars, filterVars>>

SetValue_unchecked(value) ==
    /\ metric # NoMetric
    /\ exc' = ""
    /\ metric' = [metric EXCEPT !.value = value]
    /\ metric_str' = ""
    /\ UNCHANGED <<exporterVars, labelVars, filterVars>>

\* metric.value = value
SetValue(value) ==
    /\ metric # NoMetric
    /\ IF IsNumber(value)
       THEN exc' = "" /\ metric' = [metric EXCEPT !.value = value]
       ELSE exc' = BadMetricValue /\ UNCHANGED metric
    /\ metric_str' = ""
    /\ UNCHANGED <<exporterVars, labelVars, filterVars>>

\* str(metric)
Str ==
    /\ metric # NoMetric
    /\ metric_str' = MetricStr(metric)
    /\ exc' = ""
    /\ UNCHANGED <<metric, exporterVars, labelVars, filterVars>>

NextMetric ==
    \/ \E name \in NameInputs, kw \in KwargInputs : NewMetric(name, kw)
    \/ \E name \in NameInputs : SetName(name)
    \/ \E value \in ValueInputs : SetValue(value)
    \/ Str

SpecMetric == InitLabels /\ [][NextMetric]_vars

-----------------------------------------------------------------------------
(* The plain Exporter: export() of an exporter that is not cached.  Its     *)
(* get_metrics has no await before its return, so a call runs from its      *)
(* start to the end of export() in one step.                                 *)

\* Entries of config["metrics"] without labels: untyped without a help, and a
\* counter with a help
E_plain == MetricObj("m5", "", "", <<>>, PyInt(0), NoHook)
E_help == MetricObj("m6", "counter", "H", <<>>, PyFloat(1), NoHook)

\* The values config["metrics"] takes
ExporterConfigs ==
    { <<>>, <<E_plain>>, <<E_plain, E_help>>, <<C_m1, C_m2>>, <<C_m2, E_plain>>,
      <<C_m1, C_bad>> }

ExporterExport_keeps_list(r, f) ==
    /\ req[r].pc = "idle"
    /\ LET run == export_config_metrics(config)
           ids == SmallestN(ObjIds \ LiveObjs, Len(run.built))
           os == Construct(ids, run.built)
           la == Min(ListIds \ Roots)
           ls == [lists EXCEPT ![la] = ids]
       IN IF metrics # NoList /\ lists[metrics] # <<>>
          THEN /\ Return(r, f, cached_metrics, metrics, lists, objs, "")
               /\ exc' = ""
          ELSE IF run.raised
          THEN /\ Commit(cached_metrics, la, req, ls, os)
               /\ exc' = BadMetricValue
               /\ log' = ""
          ELSE /\ Return(r, f, cached_metrics, la, ls, os, "")
               /\ exc' = ""
    /\ UNCHANGED <<now, config, cache_life, cache_time, labelVars, metricVars, filterVars>>

\* Exporter.export(label_filter) of request r: get_metrics sets self.metrics
\* to a new list, export_config_metrics appends a Metric per entry of the
\* config, and export writes the copy get_metrics returned.  A Metric() that
\* raises ends the call with self.metrics as filled so far.
ExporterExport(r, f) ==
    /\ req[r].pc = "idle"
    /\ LET run == export_config_metrics(config)
           ids == SmallestN(ObjIds \ LiveObjs, Len(run.built))
           os == Construct(ids, run.built)
           la == Min(ListIds \ Roots)
           ls == [lists EXCEPT ![la] = ids]
       IN IF run.raised
          THEN /\ Commit(cached_metrics, la, req, ls, os)
               /\ exc' = BadMetricValue
               /\ log' = ""
          ELSE /\ Return(r, f, cached_metrics, la, ls, os, "")
               /\ exc' = ""
    /\ UNCHANGED <<now, config, cache_life, cache_time, labelVars, metricVars, filterVars>>

NextExporter ==
    \/ \E r \in Requests, f \in Filters : ExporterExport(r, f)
    \/ \E r \in Requests : Done(r)
    \/ \E c \in ExporterConfigs : SetConfig(c)

InitExporter == Init /\ config \in ExporterConfigs /\ cache_life = PyInt(0)

SpecExporter == InitExporter /\ [][NextExporter]_vars

-----------------------------------------------------------------------------
(* Labels.filter_metrics: a caller calls it on a Labels with a list of      *)
(* Metrics and a dict.  It has no await, so it runs in one step.             *)

\* What dict.get(key) gives for a key that is absent: None, which equals no
\* label value
DictGetNone == "<None>"

\* dict.get(key)
dict_get(labels, key) == IF LabelsHas(labels, key) THEN LabelsGet(labels, key) ELSE DictGetNone

\* del d[key]
dict_del(d, key) == SelectSeq(d, LAMBDA item : item[1] # key)

DropUndefined_keeps_all(self, input_filter_dict, filter_dict, i) == filter_dict

\* The first loop, from item i of input_filter_dict on: a key that is not in
\* self is deleted from filter_dict
RECURSIVE DropUndefined(_, _, _, _)
DropUndefined(self, input_filter_dict, filter_dict, i) ==
    IF i > Len(input_filter_dict) THEN filter_dict
    ELSE DropUndefined(self, input_filter_dict,
                       IF LabelsHas(self, input_filter_dict[i][1]) THEN filter_dict
                       ELSE dict_del(filter_dict, input_filter_dict[i][1]),
                       i + 1)

NarrowFrom_last_key_only(ms, filter_dict, i) ==
    IF filter_dict = <<>> THEN ms
    ELSE SelectSeq(ms, LAMBDA m : dict_get(m.labels, filter_dict[Len(filter_dict)][1])
                                    = filter_dict[Len(filter_dict)][2])

\* The second loop, from item i of filter_dict on: metrics becomes the list
\* of its Metrics whose label has the value
RECURSIVE NarrowFrom(_, _, _)
NarrowFrom(ms, filter_dict, i) ==
    IF i > Len(filter_dict) THEN ms
    ELSE NarrowFrom(SelectSeq(ms, LAMBDA m : dict_get(m.labels, filter_dict[i][1])
                                               = filter_dict[i][2]),
                    filter_dict, i + 1)

\* filter_metrics(metrics, input_filter_dict) called on self: what it
\* returns, and what the caller's list and dict hold afterwards.  The keys are
\* deleted from a copy of the dict; the list is returned as it is when no key
\* is left, and each pass of the second loop makes a new list.
filter_metrics(self, ms, input_filter_dict) ==
    LET filter_dict == DropUndefined(self, input_filter_dict, input_filter_dict, 1)
    IN [ret |-> [returned |-> TRUE,
                 metrics |-> IF filter_dict = <<>> THEN ms
                             ELSE NarrowFrom(ms, filter_dict, 1),
                 same_list |-> filter_dict = <<>>],
        metrics |-> ms,
        input_filter_dict |-> input_filter_dict]

\* The Labels filter_metrics is called on
SelfInputs == { <<>>, L_a1, L_a2bx }

\* Metrics with the labels b, a (in this order) and without labels
M_bxa1 == MetricObj("m7", "untyped", "", << <<"b", "x">>, <<"a", "1">> >>, PyInt(0), NoHook)

\* The lists of Metrics passed to filter_metrics
MetricListInputs ==
    { <<>>, <<MetricInit(C_m1)>>, <<MetricInit(C_m1), MetricInit(C_m2)>>,
      <<MetricInit(C_m2), M_bxa1, MetricInit(C_m1)>>,
      <<MetricInit(E_plain), MetricInit(C_m2)>>,
      <<M_bxa1, MetricInit(E_plain), MetricInit(C_m3)>> }

\* The dicts passed as input_filter_dict: keys a and b are labels of some
\* Labels above, c of none
FilterDictInputs ==
    { <<>>, L_a1, << <<"a", "2">> >>, << <<"b", "x">> >>, L_a2bx,
      << <<"b", "x">>, <<"a", "1">> >>, << <<"a", "1">>, <<"b", "x">> >>,
      << <<"c", "z">> >>, << <<"a", "1">>, <<"c", "z">> >>,
      << <<"c", "z">>, <<"b", "x">> >> }

\* A caller takes a Labels, a list of Metrics and a dict
Prepare(self, ms, input_filter_dict) ==
    /\ fm_self' = self
    /\ fm_metrics' = ms
    /\ fm_filter_dict' = input_filter_dict
    /\ fm_result' = NoResult
    /\ exc' = ""
    /\ UNCHANGED <<exporterVars, labelVars, metricVars>>

\* await fm_self.filter_metrics(fm_metrics, fm_filter_dict)
FilterMetrics ==
    /\ ~fm_result.returned
    /\ LET out == filter_metrics(fm_self, fm_metrics, fm_filter_dict)
       IN /\ fm_result' = out.ret
          /\ fm_metrics' = out.metrics
          /\ fm_filter_dict' = out.input_filter_dict
    /\ exc' = ""
    /\ UNCHANGED <<fm_self, exporterVars, labelVars, metricVars>>

NextFilter ==
    \/ \E self \in SelfInputs, ms \in MetricListInputs, d \in FilterDictInputs :
          Prepare(self, ms, d)
    \/ FilterMetrics

SpecFilter == InitLabels /\ [][NextFilter]_vars

-----------------------------------------------------------------------------
(* Properties of the cached exporter *)

\* Request r's call of export starts in this step
Calls(r) == req[r].pc = "idle" /\ req'[r].pc # "idle"

\* The provider call request r awaits ends in this step
ProviderEnds(r) == req[r].pc = "awaiting" /\ req'[r].pc # "awaiting"

\* The list request r got holds the very Metric objects of the snapshot
ServedSnapshot(r) ==
    /\ req[r].pc = "done"
    /\ cached_metrics # NoList
    /\ lists[req[r].result] = lists[cached_metrics]

\* The Metrics request r got from get_metrics
Got(r) == View(lists, objs, req[r].result)

\* The Metrics request r has after the step
GotNext(r) == View(lists', objs', req'[r].result)

\* C1, its step: a call made while a snapshot exists and its age is below
\* cache_life ends without awaiting the provider, leaves the snapshot as it
\* is and returns the export of the snapshot.
C1_HitStep ==
    \A r \in Requests :
        (Calls(r) /\ cached_metrics # NoList /\ now - cache_time < cache_life.v)
        => /\ req'[r].pc = "done"
           /\ ServedSnapshot(r)'
           /\ Snapshot' = Snapshot
           /\ cache_time' = cache_time
           /\ req'[r].out = export(Snapshot, req'[r].filter)

\* C1, its states: two calls with the same filter that were served the same
\* snapshot got the same text.
C1_SameText ==
    \A r1, r2 \in Requests :
        (ServedSnapshot(r1) /\ ServedSnapshot(r2) /\ req[r1].filter = req[r2].filter)
        => req[r1].out = req[r2].out

\* C1: two calls of export with the same filter made while the snapshot's age
\* is below cache_life return the same text, and the second does not call the
\* provider, whatever the provider's data has become.
C1_CachedWithinLife == [][C1_HitStep]_vars /\ []C1_SameText

\* Two requests hold the text of the same snapshot, the last of them answered
\* from the cache, while the provider would now build something else.
C1_Witness ==
    /\ log = LogCached
    /\ export_config_metrics(config).built # Snapshot
    /\ \E r1, r2 \in Requests :
          /\ r1 # r2
          /\ ServedSnapshot(r1) /\ ServedSnapshot(r2)
          /\ req[r1].filter = req[r2].filter
          /\ req[r1].out # ""

\* C2: when the provider returns an empty list while a snapshot exists, the
\* call returns the Metrics of that snapshot and the export of it, and the
\* snapshot is what it was.
C2_StaleFallback ==
    [][\A r \in Requests :
          (/\ ProviderEnds(r)
           /\ ~export_config_metrics(config).raised
           /\ export_config_metrics(config).built = <<>>
           /\ cached_metrics # NoList)
          => /\ ServedSnapshot(r)'
             /\ Snapshot' = Snapshot
             /\ req'[r].out = export(Snapshot, req[r].filter)
             /\ log' = LogNoMetrics]_vars

\* A refresh attempt has just been answered from the prior snapshot.
C2_Witness ==
    /\ log = LogNoMetrics
    /\ config = <<>>
    /\ \E r \in Requests : ServedSnapshot(r) /\ req[r].out # ""

\* C3: at most one provider call is in flight at any time.
C3_SingleFlight == Cardinality({r \in Requests : req[r].pc = "awaiting"}) <= 1

\* The caller of request r writes to what it got
CallerWrites(r) == CallerRemove(r) \/ CallerSetValue(r, 1) \/ CallerSetLabel(r, 1)

\* What request q holds stays what it was
SameGot(q) == req[q].pc = "done" => (req'[q].pc = "done" /\ Got(q)' = Got(q))

\* C4: copy-on-read.  Nothing a caller does to the list it got or to a Metric
\* in it (its value, its labels) changes the snapshot or what another request
\* holds.
C4_CopyOnRead ==
    [][\A r \in Requests :
          CallerWrites(r)
          => (Snapshot' = Snapshot /\ \A q \in Requests \ {r} : SameGot(q))]_vars

\* What list.copy() gives: the list a caller got is its own, so removing
\* elements from it changes neither the snapshot nor what another request
\* holds; the Metrics in it are the snapshot's own objects, so a value a
\* caller writes to one of them is the value the snapshot has from then on.
ListCopiedMetricsShared ==
    [][\A r \in Requests :
          /\ CallerRemove(r)
             => (Snapshot' = Snapshot /\ \A q \in Requests \ {r} : SameGot(q))
          /\ (CallerSetValue(r, 1) /\ ServedSnapshot(r))
             => Snapshot'[1].value = CallerValue]_vars

\* A caller has removed the first element of the list it got from the
\* snapshot, and the snapshot still holds both its Metrics.
CallerRemovedFirst ==
    \E r \in Requests :
        /\ req[r].pc = "done"
        /\ cached_metrics # NoList
        /\ Len(lists[cached_metrics]) = 2
        /\ lists[req[r].result] = Tail(lists[cached_metrics])

\* C5: when the provider raises, the exception leaves export, the call
\* returns nothing, and _cached_metrics and cache_time are what they were.
C5_RaisePropagates ==
    [][\A r \in Requests :
          (ProviderEnds(r) /\ export_config_metrics(config).raised)
          => /\ exc' = BadMetricValue
             /\ req'[r] = IdleReq
             /\ (cached_metrics' = NoList) = (cached_metrics = NoList)
             /\ Snapshot' = Snapshot
             /\ cache_time' = cache_time]_vars

\* The provider has just raised, with a snapshot in place that is not the
\* list the provider left in self.metrics.
C5_Witness ==
    /\ exc = BadMetricValue
    /\ cached_metrics # NoList
    /\ metrics # cached_metrics
    /\ Snapshot # <<>>

\* C6 as claimed: when the provider raises while a snapshot exists, the call
\* does not fail and is served the snapshot.
C6_StaleOnRaise ==
    [][\A r \in Requests :
          (ProviderEnds(r) /\ export_config_metrics(config).raised /\ cached_metrics # NoList)
          => (exc' = "" /\ ServedSnapshot(r)')]_vars

\* C6 as amended: when the provider raises, the exception leaves export also
\* when a snapshot exists: nothing is served, and the only refresh attempt
\* answered from the prior snapshot is one whose provider returned an empty
\* list.
C6_RaiseNotMasked ==
    [][\A r \in Requests :
          /\ (ProviderEnds(r) /\ export_config_metrics(config).raised
                /\ cached_metrics # NoList)
             => (exc' = BadMetricValue /\ req'[r].pc = "idle" /\ req'[r].out = "")
          /\ (ProviderEnds(r) /\ log' = LogNoMetrics)
             => ~export_config_metrics(config).raised]_vars

\* The provider has just raised while a snapshot past its cache_life exists.
C6_Witness ==
    /\ exc = BadMetricValue
    /\ cached_metrics # NoList
    /\ now - cache_time >= cache_life.v
    /\ \A r \in Requests : req[r].pc # "done"

C8_CacheLifeValidated ==
    [][\A value \in LifeInputs :
          SetCacheLife(value)
          => IF value.kind \notin {"int", "float"} \/ value.v < 0
             THEN /\ exc' # ""
                  /\ UNCHANGED <<cache_life, cache_time, cached_metrics, lists, objs>>
             ELSE /\ exc' = ""
                  /\ cache_life' = value]_vars

\* A negative cache_life has just been rejected while a snapshot exists.
C8_Witness ==
    /\ exc = NotPositive("cache_life")
    /\ cached_metrics # NoList
    /\ cache_life = PyFloat(1)

\* Every key of the predicate is a label of m with that value
Matches(m, predicate) ==
    \A i \in 1..Len(predicate) :
        \E j \in 1..Len(m.labels) : m.labels[j] = predicate[i]

\* The text of the metrics ms[i..]: each metric's string and a newline
RECURSIVE TextFrom(_, _)
TextFrom(ms, i) ==
    IF i > Len(ms) THEN "" ELSE MetricStr(ms[i]) \o "\n" \o TextFrom(ms, i + 1)

\* C9 as claimed: export emits exactly the metrics whose labels match the
\* predicate, in the order of the collection.
C9_ExactlyMatching ==
    \A r \in Requests :
        req[r].pc = "done" =>
            req[r].out = TextFrom(SelectSeq(Got(r), LAMBDA m : Matches(m, req[r].filter)), 1)

\* C9 as amended: export emits exactly the metrics whose labels match the
\* predicate and whose value is not None, in the order of the collection.
C9_MatchingWithValue ==
    \A r \in Requests :
        req[r].pc = "done" =>
            req[r].out = TextFrom(SelectSeq(Got(r),
                                            LAMBDA m : Matches(m, req[r].filter)
                                                       /\ GetValue(m) # PyNone), 1)

\* Of m1 {a="1"} and m2 {a="2",b="x"}, the filter {a: "1"} emitted m1 alone.
C9_Witness ==
    \E r \in Requests :
        /\ req[r].pc = "done"
        /\ req[r].filter = L_a1
        /\ Len(Got(r)) = 2
        /\ Got(r)[1].labels = L_a1 /\ Got(r)[2].labels = L_a2bx
        /\ req[r].out = MetricStr(Got(r)[1]) \o "\n"

\* A snapshot: whether there is one, and the Metrics it holds
SnapshotOf(cm, ls, os) ==
    IF cm = NoList THEN [exists |-> FALSE, metrics |-> <<>>]
    ELSE [exists |-> TRUE, metrics |-> View(ls, os, cm)]

\* In this step a provider call of get_metrics returns a list that is not
\* empty
NonEmptyReturn ==
    /\ \E r \in Requests : ProviderEnds(r)
    /\ ~export_config_metrics(config).raised
    /\ export_config_metrics(config).built # <<>>

\* A snapshot that exists is not empty
SnapshotNotEmpty == cached_metrics # NoList => lists[cached_metrics] # <<>>

\* C18 as claimed: the snapshot and cache_time change if and only if a
\* provider call made by get_metrics returns a sequence that is not empty;
\* the snapshot is then that result, cache_time the current time and the
\* state FRESH (age below cache_life); a snapshot that exists is never empty.
C18_ChangeIffNonEmpty ==
    /\ [][IF NonEmptyReturn
          THEN /\ SnapshotOf(cached_metrics', lists', objs')
                    = [exists |-> TRUE, metrics |-> export_config_metrics(config).built]
               /\ metrics' = cached_metrics'
               /\ cache_time' = now
               /\ ~NeedsRefresh'
          ELSE /\ SnapshotOf(cached_metrics', lists', objs')
                    = SnapshotOf(cached_metrics, lists, objs)
               /\ cache_time' = cache_time]_vars
    /\ []SnapshotNotEmpty

\* C18 as amended: get_metrics changes the snapshot and cache_time if and
\* only if its provider call returns a sequence that is not empty; the
\* snapshot is then that result and cache_time the current time, which is
\* the state FRESH when cache_life is above 0.  Nothing else changes the
\* snapshot, an assignment to cache_time outside get_metrics changes
\* cache_time alone, and a snapshot that exists is never empty.
C18_GetMetricsChange ==
    /\ [][IF NonEmptyReturn
          THEN /\ SnapshotOf(cached_metrics', lists', objs')
                    = [exists |-> TRUE, metrics |-> export_config_metrics(config).built]
               /\ metrics' = cached_metrics'
               /\ cache_time' = now
               /\ cache_life.v > 0 => ~NeedsRefresh'
          ELSE /\ SnapshotOf(cached_metrics', lists', objs')
                    = SnapshotOf(cached_metrics, lists, objs)
               /\ cache_time' # cache_time
                  => UNCHANGED <<req, cached_metrics, metrics, lists, objs>>]_vars
    /\ []SnapshotNotEmpty

\* A provider call at time 1 returned metrics: they are the snapshot, taken
\* at time 1, and the request was served from it.
C18_Witness ==
    /\ now = 1 /\ cache_time = 1
    /\ Snapshot # <<>>
    /\ log = ""
    /\ \E r \in Requests : ServedSnapshot(r)

\* In this step a provider call of get_metrics returns an empty list while
\* there is a snapshot
EmptyReturnOverSnapshot ==
    /\ \E r \in Requests : ProviderEnds(r)
    /\ ~export_config_metrics(config).raised
    /\ export_config_metrics(config).built = <<>>
    /\ cached_metrics # NoList

\* C19: a refresh attempt that returned an empty sequence while a snapshot
\* existed leaves cache_time as it was and the snapshot due for a refresh;
\* it stays due through every step but a provider call that returns a
\* sequence that is not empty, and a call made while it is due invokes the
\* provider.
\* (It holds under SpecSerial, where calls do not overlap.)
C19_RefreshUntilNonEmpty ==
    /\ [][EmptyReturnOverSnapshot => (cache_time' = cache_time /\ NeedsRefresh')]_vars
    /\ [][(NeedsRefresh /\ ~NonEmptyReturn) => NeedsRefresh']_vars
    /\ [][\A r \in Requests : (Calls(r) /\ NeedsRefresh) => req'[r].pc = "awaiting"]_vars

\* In this step the provider call of request r returns an empty list while
\* there is no snapshot
EmptyReturnNoSnapshot(r) ==
    /\ ProviderEnds(r)
    /\ ~export_config_metrics(config).raised
    /\ export_config_metrics(config).built = <<>>
    /\ cached_metrics = NoList

\* C20: when the provider returns an empty list and there is no snapshot, the
\* call returns an empty list and export an empty text, without an error; no
\* snapshot is created and cache_time is left alone.  While there is no
\* snapshot every call invokes the provider, and there is none until a
\* provider call returns a list that is not empty.
C20_EmptyStaysEmpty ==
    /\ [][\A r \in Requests :
            EmptyReturnNoSnapshot(r)
            => /\ exc' = ""
               /\ req'[r].pc = "done"
               /\ GotNext(r) = <<>>
               /\ req'[r].out = ""
               /\ cached_metrics' = NoList
               /\ cache_time' = cache_time]_vars
    /\ [][\A r \in Requests :
            (Calls(r) /\ cached_metrics = NoList) => req'[r].pc = "awaiting"]_vars
    /\ [][(cached_metrics = NoList /\ ~NonEmptyReturn) => cached_metrics' = NoList]_vars

\* A provider call has returned an empty list to a request while there was
\* no snapshot: the request holds an empty list and an empty text, and
\* there is still no snapshot.
C20_Witness ==
    /\ cached_metrics = NoList
    /\ config = <<>>
    /\ exc = ""
    /\ \E r \in Requests :
          /\ req[r].pc = "done"
          /\ req[r].result # NoList
          /\ Got(r) = <<>>
          /\ req[r].out = ""

\* The text of the metrics of ms[i..] that the filter lets through (every
\* pair of the filter is a label of the metric, and the metric has a value),
\* each followed by a newline
RECURSIVE FilteredText(_, _, _)
FilteredText(ms, label_filter, i) ==
    IF i > Len(ms) THEN ""
    ELSE (IF Matches(ms[i], label_filter) /\ GetValue(ms[i]) # PyNone
          THEN MetricStr(ms[i]) \o "\n" ELSE "")
         \o FilteredText(ms, label_filter, i + 1)

\* C21, its steps: the provider call of a request with any filter leaves
\* as snapshot everything the provider built, and a call answered from the
\* cache gets the metrics of the snapshot its own filter lets through.
C21_Step ==
    \A r \in Requests :
        /\ (ProviderEnds(r) /\ NonEmptyReturn)
           => Snapshot' = export_config_metrics(config).built
        /\ (Calls(r) /\ req'[r].pc = "done")
           => /\ GotNext(r) = Snapshot
              /\ Snapshot' = Snapshot
              /\ req'[r].out = FilteredText(Snapshot, req'[r].filter, 1)

\* C21: an export served from the snapshot returns exactly the metrics of
\* the snapshot that its own filter lets through, whatever filter the call
\* that took the snapshot had.
C21_FilterPerCall ==
    /\ [][C21_Step]_vars
    /\ [](\A r \in Requests :
            ServedSnapshot(r) => req[r].out = FilteredText(Snapshot, req[r].filter, 1))

\* One request asked with the filter {a: "1"} and the other without a
\* filter; both were served the snapshot of m1 and m2, the first got m1 and
\* the second, answered from the cache, got both.
C21_Witness ==
    /\ log = LogCached
    /\ Len(Snapshot) = 2
    /\ \E r1, r2 \in Requests :
          /\ ServedSnapshot(r1) /\ ServedSnapshot(r2)
          /\ req[r1].filter = L_a1 /\ req[r2].filter = <<>>
          /\ req[r1].out = MetricStr(Snapshot[1]) \o "\n"
          /\ req[r2].out = MetricStr(Snapshot[1]) \o "\n" \o MetricStr(Snapshot[2]) \o "\n"

\* The Metrics of ms that have a value: a read of .value does not give None
WithValue(ms) == SelectSeq(ms, LAMBDA m : GetValue(m) # PyNone)

\* The text export writes for ms when only the labels decide
LabelsOnlyText(ms, label_filter) ==
    TextFrom(SelectSeq(ms, LAMBDA m : Matches(m, label_filter)), 1)

\* C22: a metric whose value is None is left out of the export whether or
\* not its labels match the filter, and the others are written as if it were
\* not in the list: the text is the text of the list without the metrics
\* that have no value.
C22_NoneExcluded ==
    \A r \in Requests :
        req[r].pc = "done"
        => /\ req[r].out = LabelsOnlyText(WithValue(Got(r)), req[r].filter)
           /\ \A i \in 1..Len(Got(r)) :
                 GetValue(Got(r)[i]) = PyNone
                 => req[r].out = LabelsOnlyText(SubSeq(Got(r), 1, i - 1)
                                                  \o SubSeq(Got(r), i + 1, Len(Got(r))),
                                                req[r].filter)

\* An export without a filter got m3, whose _value() gives None, and m2: it
\* returned the text of m2 alone.
C22_Witness ==
    \E r \in Requests :
        /\ req[r].pc = "done"
        /\ req[r].filter = <<>>
        /\ Len(Got(r)) = 2
        /\ Got(r)[1].name = "m3" /\ GetValue(Got(r)[1]) = PyNone
        /\ req[r].out = MetricStr(Got(r)[2]) \o "\n"

-----------------------------------------------------------------------------
(* Properties of Labels *)

\* Owner o sets or removes a key of the Labels it holds in this step
Mutates(o) ==
    \/ \E item \in LabelItems : SetItem(o, item[1], item[2])
    \/ \E key \in LabelNames : Pop(o, key)

\* C10: label sets are never shared between owners.  When the holder of a
\* Labels (the one a caller built, self.labels of the exporter, a copy from
\* copy() or get_labels(), the labels of a Metric built from an argument or
\* by export_config_metrics) sets, changes or removes a key of it, the items
\* every other holder sees stay what they were.
C10_LabelsNotShared ==
    [][\A o \in Owners :
          Mutates(o) => \A p \in Owners \ {o} : Seen(p)' = Seen(p)]_vars

\* All four hold a Labels that descends from the caller's {a: 1}; b was set
\* once, on the Metric's labels, and a was removed from the copy, and the
\* caller's and the exporter's Labels are as they were built.
C10_Witness ==
    /\ \A o \in Owners : label_refs[o] # NoRef
    /\ global_labels["b"] = <<"2">>
    /\ Seen("arg") = << <<"a", "1">> >>
    /\ Seen("exporter") = << <<"a", "1">> >>
    /\ Seen("copy") = <<>>
    /\ Seen("metric") = << <<"a", "1">>, <<"b", "2">> >>

\* The pair is one _check_label rejects by its types
NotStrPair(pair) == ~IsStr(pair[1]) \/ ~IsStr(pair[2])

\* The first pair of a mapping that is rejected by its types (0 if none)
FirstNotStr(mapping) ==
    IF \E i \in 1..Len(mapping) : NotStrPair(mapping[i])
    THEN CHOOSE i \in 1..Len(mapping) :
            NotStrPair(mapping[i]) /\ \A j \in 1..(i - 1) : ~NotStrPair(mapping[j])
    ELSE 0

\* The values the registry holds, over all label names
RegistryValues(registry) == UNION {Range(registry[k]) : k \in LabelNames}

\* C11, its steps: labels[key] = value with a key or value that is no str
\* raises and changes neither the Labels nor the registry; update with a
\* mapping that has such a pair raises, the Labels keeps the pairs it had
\* with those of the mapping before that pair set, and the pair is not in
\* it; Labels(mapping) with such a pair raises and binds no Labels.
C11_RejectStep ==
    /\ \A item \in SetInputs :
          (NotStrPair(item) /\ SetItem("arg", item[1], item[2]))
          => /\ exc' \in {BadLabelName, BadLabelValue}
             /\ UNCHANGED labelVars
    /\ \A d \in MappingInputs :
          (FirstNotStr(d) # 0 /\ Update("arg", d))
          => /\ exc' \in {BadLabelName, BadLabelValue}
             /\ \A i \in 1..Len(Seen("arg")) :
                   /\ LabelsHas(Seen("arg")', Seen("arg")[i][1])
                   /\ \/ LabelsHas(SubSeq(d, 1, FirstNotStr(d) - 1), Seen("arg")[i][1])
                      \/ LabelsGet(Seen("arg")', Seen("arg")[i][1]) = Seen("arg")[i][2]
             /\ \A i \in 1..(FirstNotStr(d) - 1) :
                   /\ LabelsHas(Seen("arg")', d[i][1])
                   /\ LabelsGet(Seen("arg")', d[i][1]) = d[i][2]
             /\ d[FirstNotStr(d)] \notin Range(Seen("arg")')
             /\ RegistrySize(global_labels') = RegistrySize(global_labels) + FirstNotStr(d) - 1
    /\ \A d \in MappingInputs :
          (FirstNotStr(d) # 0 /\ NewLabels(d))
          => /\ exc' \in {BadLabelName, BadLabelValue}
             /\ UNCHANGED <<label_refs, label_objs>>
             /\ RegistrySize(global_labels') = RegistrySize(global_labels) + FirstNotStr(d) - 1

\* C11, its states: no Labels and no registry entry holds a key or a value
\* that is no str.
C11_OnlyStrings ==
    /\ \A o \in Owners : \A i \in 1..Len(Seen(o)) : ~NotStrPair(Seen(o)[i])
    /\ NotAStr \notin RegistryValues(global_labels)

\* C11: setting a label whose key or value is not a string, through item
\* assignment, update or construction from a mapping, raises; the failing
\* pair is neither stored in the Labels nor appended to the registry, and the
\* pairs stored before the failure are left intact.
C11_NonStringRejected == [][C11_RejectStep]_vars /\ []C11_OnlyStrings

\* An update has just raised on its second pair: the Labels kept the b it
\* had and has the a of the mapping's first pair.
C11_Witness ==
    /\ exc = BadLabelName
    /\ label_refs["arg"] # NoRef
    /\ Seen("arg") = << <<"b", "2">>, <<"a", "2">> >>

\* The label names of the model that match [a-zA-Z_][a-zA-Z0-9_]*
NamesMatchingPattern == {"a", "b", "_a"}

\* C12: labels[key] = value, for a key and a value that are strs, raises and
\* stores nothing when the key does not match [a-zA-Z_][a-zA-Z0-9_]* or the
\* value is the empty string; any other pair, such as one with the key _a,
\* is stored.
C12_NameAndValueValidated ==
    [][\A item \in SetInputs :
          (~NotStrPair(item) /\ SetItem("arg", item[1], item[2]))
          => IF item[1] \notin NamesMatchingPattern \/ item[2] = ""
             THEN exc' # "" /\ UNCHANGED labelVars
             ELSE /\ exc' = ""
                  /\ LabelsHas(Seen("arg")', item[1])
                  /\ LabelsGet(Seen("arg")', item[1]) = item[2]]_vars

\* labels.get(key), "" standing for a key that is not there
LabelOf(labels, key) == IF LabelsHas(labels, key) THEN LabelsGet(labels, key) ELSE ""

FilterReturns == ~fm_result.returned /\ fm_result'.returned

\* The items of the dict whose key is a key of the Labels filter_metrics is
\* called on
Recognized(self, d) == SelectSeq(d, LAMBDA item : \E j \in 1..Len(self) : self[j][1] = item[1])

\* C23: filter_metrics returns the Metrics of the list, in their order, that
\* have every pair of the dict whose key is a key of the Labels it is called
\* on; the other pairs of the dict make no Metric fail.  When no such pair is
\* left it returns all Metrics.  The list and the dict of the caller are
\* what they were.
C23_UnknownKeysIgnored ==
    [][FilterReturns
       => /\ fm_result'.metrics
               = SelectSeq(fm_metrics,
                           LAMBDA m : Matches(m, Recognized(fm_self, fm_filter_dict)))
          /\ Recognized(fm_self, fm_filter_dict) = <<>> => fm_result'.metrics = fm_metrics
          /\ fm_metrics' = fm_metrics
          /\ fm_filter_dict' = fm_filter_dict]_vars

\* Called on a Labels with the key a alone and the dict {a: "1", c: "z"},
\* filter_metrics returned the two Metrics of three that have a = "1",
\* although none has a label c.
C23_Witness ==
    /\ fm_result.returned
    /\ fm_self = L_a1
    /\ fm_filter_dict = << <<"a", "1">>, <<"c", "z">> >>
    /\ Len(fm_metrics) = 3
    /\ Len(fm_result.metrics) = 2
    /\ \A i \in 1..2 : ~LabelsHas(fm_result.metrics[i].labels, "c")

\* Every key of the dict is a key of the Labels filter_metrics is called on
AllRecognized(self, d) == Recognized(self, d) = d

\* C24: for a dict whose keys are all keys of the Labels it is called on,
\* filter_metrics, which narrows the list key by key, returns the Metrics of
\* the list for which Metric.check_labels(dict) is true, in the same order.
C24_NarrowingIsCheckLabels ==
    [][(FilterReturns /\ AllRecognized(fm_self, fm_filter_dict))
       => fm_result'.metrics
            = SelectSeq(fm_metrics, LAMBDA m : check_labels(m, fm_filter_dict))]_vars

\* With the dict {a: "1", b: "x"}, both keys recognized, filter_metrics
\* returned of three Metrics the one that has both pairs, which is the one
\* check_labels accepts.
C24_Witness ==
    /\ fm_result.returned
    /\ fm_self = L_a2bx
    /\ fm_filter_dict = << <<"a", "1">>, <<"b", "x">> >>
    /\ Len(fm_metrics) = 3
    /\ fm_result.metrics = <<M_bxa1>>
    /\ check_labels(M_bxa1, fm_filter_dict)

\* C25: every key and every value a Labels object holds is a string, as the
\* label check requires: no operation stores a pair that did not pass it.
\* (It holds under SpecLabels and SpecLabelSet, where Labels are built, set,
\* updated and copied but no config file is read.)
C25_OnlyCheckedPairs ==
    \A l \in LabelIds :
        \A i \in 1..Len(label_objs[l]) :
            _check_label(label_objs[l][i][1], label_objs[l][i][2]) = ""

-----------------------------------------------------------------------------
(* Properties of Metric *)

\* C14: an assignment to the name of a Metric after construction raises and
\* leaves the Metric as it was, and an assignment to its value leaves the
\* name as it was.
C14_NameNotReassigned ==
    [][/\ \A name \in NameInputs :
             SetName(name) => (exc' = CannotChangeName /\ metric' = metric)
       /\ \A value \in ValueInputs :
             SetValue(value) => metric'.name = metric.name]_vars

\* An assignment to the name of the Metric m_x has just been rejected.
C14_Witness ==
    /\ exc = CannotChangeName
    /\ metric.name = "m_x"

\* The name with each space replaced by an underscore, as a str
RECURSIVE Underscored(_, _)
Underscored(name, i) ==
    IF i > Len(name) THEN ""
    ELSE (IF name[i] = " " THEN "_" ELSE name[i]) \o Underscored(name, i + 1)

\* The name, with a space taken for an underscore, matches
\* [a-zA-Z_][a-zA-Z0-9_]*
NameAccepted(name) ==
    /\ name # <<>>
    /\ name[1] \in Letters \cup {"_", " "}
    /\ \A i \in 2..Len(name) : name[i] \in Letters \cup Digits \cup {"_", " "}

\* C15: Metric(name, ...) stores the name with each space replaced by an
\* underscore, and raises, binding no Metric, when the name after the
\* replacement does not match the metric name pattern.
C15_NameNormalised ==
    [][\A name \in NameInputs, kw \in KwargInputs :
          NewMetric(name, kw)
          => IF ~NameAccepted(name)
             THEN /\ exc' = "ValueError: Invalid metric name: " \o Underscored(name, 1)
                  /\ metric' = metric
             ELSE IsNumber(kw.value)
                  => (exc' = "" /\ metric'.name = Underscored(name, 1))]_vars

\* Metric("m x") was built and has the name m_x.
C15_Witness ==
    /\ exc = ""
    /\ metric.name = "m_x"
    /\ metric_str = ""

\* The label segment from pair i on: k="v" for each label in the order of
\* insertion, with commas between
RECURSIVE ExpectedLabels(_, _)
ExpectedLabels(labels, i) ==
    IF i > Len(labels) THEN ""
    ELSE labels[i][1] \o "=" \o "\"" \o labels[i][2] \o "\""
         \o (IF i < Len(labels) THEN "," \o ExpectedLabels(labels, i + 1) ELSE "")

\* The value a read of m.value gives, as text
ExpectedValue(m) ==
    LET x == IF m.hook = NoHook THEN m.value ELSE m.hook
    IN CASE x.kind = "int" -> ToString(x.v)
         [] x.kind = "float" -> ToString(x.v) \o ".0"
         [] OTHER -> "None"

\* The lines of the text of m, without a newline after the last
ExpectedLines(m) ==
    (IF m.help = "" THEN <<>> ELSE << "# HELP " \o m.name \o " " \o m.help >>)
    \o << "# TYPE " \o m.name \o " " \o m.type >>
    \o << m.name
          \o (IF Len(m.labels) = 0 THEN "" ELSE "{" \o ExpectedLabels(m.labels, 1) \o "}")
          \o " " \o ExpectedValue(m) >>

RECURSIVE JoinLines(_, _)
JoinLines(lines, i) ==
    IF i = Len(lines) THEN lines[i] ELSE lines[i] \o "\n" \o JoinLines(lines, i + 1)

ExpectedStr(m) == JoinLines(ExpectedLines(m), 1)

\* The text of the emitted metrics of ms[i..]: each one's text and a newline
RECURSIVE ExpectedExport(_, _, _)
ExpectedExport(ms, label_filter, i) ==
    IF i > Len(ms) THEN ""
    ELSE (IF Matches(ms[i], label_filter) /\ GetValue(ms[i]) # PyNone
          THEN ExpectedStr(ms[i]) \o "\n" ELSE "")
         \o ExpectedExport(ms, label_filter, i + 1)

\* str(metric), once taken, is the text of the metric (under SpecMetric, which
\* has Metrics of a subclass with a _value())
StrAsExpected == metric_str # "" => metric_str = ExpectedStr(metric)

\* An assignment of a value that is no number raises and leaves the Metric
\* as it was
C26_AssignChecked ==
    \A value \in ValueInputs :
        (SetValue(value) /\ ~IsNumber(value))
        => (exc' = "TypeError: Value must be an integer or float" /\ metric' = metric)

\* C26 as claimed: every read of the value of a Metric gives an int or a
\* float, also for a Metric whose value a _value() gives on each read; an
\* assignment of a value that is no number raises TypeError and leaves the
\* value as it was.
C26_ReadIsNumeric ==
    /\ [](metric # NoMetric => IsNumber(GetValue(metric)))
    /\ [][C26_AssignChecked]_vars

\* C26 as amended: the value stored in a Metric is always an int or a float,
\* since an assignment of a value that is no number raises TypeError and
\* leaves the value as it was, and a read of the value of a Metric without a
\* _value() gives that stored value.  A read of a Metric with a _value()
\* gives what _value() returns, whatever it is.
C26_StoredIsNumeric ==
    /\ [](metric # NoMetric
          => /\ IsNumber(metric.value)
             /\ metric.hook = NoHook => GetValue(metric) = metric.value
             /\ metric.hook # NoHook => GetValue(metric) = metric.hook)
    /\ [][C26_AssignChecked]_vars

\* A Metric without a _value() had the value 1.0 assigned, and the
\* assignment of a str after it raised and left the 1.0.
C26_Witness ==
    /\ metric # NoMetric
    /\ metric.hook = NoHook
    /\ metric.value = PyFloat(1)
    /\ exc = BadMetricValue

-----------------------------------------------------------------------------
(* Properties of the plain Exporter *)

\* C16: str(metric) is the line "# HELP <name> <help>" only if a help is set,
\* the line "# TYPE <name> <type>", then <name>, the labels as {k="v",...} in
\* the order of insertion only if there are labels, a space and the value,
\* without a newline at the end; what export returns is the string of each
\* emitted metric followed by a newline.
C16_ExportText ==
    \A r \in Requests :
        req[r].pc = "done" => req[r].out = ExpectedExport(Got(r), req[r].filter, 1)

\* An export of m2 (help, two labels) and m5 (no help, no labels) returned
\* the five lines of the two.
C16_Witness ==
    \E r \in Requests :
        /\ req[r].pc = "done"
        /\ config = <<C_m2, E_plain>>
        /\ req[r].out = "# HELP m2 H\n# TYPE m2 untyped\nm2{a=\"2\",b=\"x\"} 2\n"
                        \o "# TYPE m5 untyped\nm5 0\n"

\* The Metric an entry of config["metrics"] stands for
ConfiguredMetric(entry) ==
    [entry EXCEPT !.type = IF entry.type = "" THEN "untyped" ELSE entry.type]

\* C17: every export of the plain Exporter that returns was built from the
\* configuration of that moment alone, whatever the calls before it left:
\* the list it got and self.metrics hold one Metric per configured metric, in
\* the order of the configuration, and the text is the text of these, so that
\* exports of an unchanged configuration are equal and a metric added to the
\* configuration is in the next export.
C17_RebuiltEachCall ==
    [][\A r \in Requests :
          (req[r].pc = "idle" /\ req'[r].pc = "done")
          => /\ GotNext(r) = [i \in 1..Len(config) |-> ConfiguredMetric(config[i])]
             /\ View(lists', objs', metrics') = GotNext(r)
             /\ req'[r].out = ExpectedExport(GotNext(r), req'[r].filter, 1)]_vars

\* After an export of m5 alone, m6 was added to the configuration and the
\* next export returned m5 and m6, each once.
C17_Witness ==
    /\ config = <<E_plain, E_help>>
    /\ req["r1"].pc = "done" /\ req["r2"].pc = "done"
    /\ Len(Got("r1")) = 1 /\ Got("r1")[1].name = "m5"
    /\ Len(Got("r2")) = 2 /\ Got("r2")[1].name = "m5" /\ Got("r2")[2].name = "m6"
    /\ View(lists, objs, metrics) = Got("r2")

====
